---- MODULE Spec2Model ----
(***************************************************************************)
(* Model of the session-scoped aggregation-and-memory pipeline of          *)
(* wildfire_agent/main_agent.py: the process-wide SESSION_MEMORY store and *)
(* the six tool functions that read and write it.                          *)
(*                                                                         *)
(* Numbers.  The code works on Python floats.  The model works on          *)
(* integers: a cost is a count of hundredths of a dollar and an hour       *)
(* figure a count of tenths of an hour, so that the two format             *)
(* specifications of build_cost_table (",.2f" and ".1f") are computed      *)
(* digit by digit and sums are exact.                                      *)
(*                                                                         *)
(* Python values that are stored in the session memory or returned by a    *)
(* tool are tagged records (t is the Python type), so that values of       *)
(* different types can be compared.                                        *)
(***************************************************************************)
EXTENDS Integers, Sequences, FiniteSets, TLC

VARIABLES
    SESSION_MEMORY,   \* main_agent.py:44, session id -> per-session memory dict
    configured,       \* SEARCH_API_KEY and SEARCH_CSE_ID are both set (read once at import)
    call,             \* the last tool call: its name, arguments and outcome
    input,            \* the argument drawn for the single-function specifications
    history,          \* per session, what the calls made so far returned / wrote
    ncalls,           \* the number of calls made so far
    pipeline          \* the pipeline runs of the callers: what each holds, how far it is

vars == <<SESSION_MEMORY, configured, call, input, history, ncalls, pipeline>>

\* ------------------------------------------------------------------ bounds

MaxCalls == 3        \* calls made in one run
MaxRecords == 3      \* records passed to aggregate_costs
MaxCost == 1         \* cost of a record
MaxRows == 3         \* rows passed to compact_aggregated_costs
MaxTotal == 2        \* total_cost of a row
MaxK == 4            \* max_rows
MaxRenderRows == 2   \* rows passed to build_cost_table
MaxTextLen == 3      \* tokens of a serialized argument
MaxRuns == 3         \* pipeline runs

\* ------------------------------------------------------------ Python values

PyNone == [t |-> "None"]
PyStr(s) == [t |-> "str", s |-> s]
PyInt(n) == [t |-> "int", n |-> n]
PyList(items) == [t |-> "list", items |-> items]
PyDict(d) == [t |-> "dict", d |-> d]
\* A str argument holding serialized text: the sequence of its JSON tokens.
PyText(toks) == [t |-> "str", toks |-> toks]
\* An exception that leaves the tool function.
Raised(e) == [t |-> "raised", exc |-> e]

\* The value None of a region or category label: f-strings print it as "None".
NoneLabel == "None"

\* dict.get(key, default)
Get(d, key, default) == IF key \in DOMAIN d THEN d[key] ELSE default

RECURSIVE SumSeq(_)
SumSeq(s) == IF s = <<>> THEN 0 ELSE s[1] + SumSeq(Tail(s))

\* ------------------------------------------------------------ session store

NewSessionMemory ==
    [last_year |-> PyNone, last_raw_records |-> PyNone, last_aggregated |-> PyNone,
     last_compacted |-> PyNone, last_summary |-> PyNone,
     last_search_query |-> PyNone, last_search_results |-> PyNone]

\* A fault: the entry is initialised on every access, not only on the first.
get_session_memory_reset(mem, session_id) ==
    (session_id :> NewSessionMemory) @@ mem

\* The store after _get_session_memory(session_id): the entry is created on first use.
get_session_memory(mem, session_id) ==
    IF session_id \in DOMAIN mem THEN mem ELSE mem @@ (session_id :> NewSessionMemory)

\* mem = _get_session_memory(session_id); mem[field] = value
StoreField(mem, session_id, field, value) ==
    LET m == get_session_memory(mem, session_id)
    IN  [m EXCEPT ![session_id] = [@ EXCEPT ![field] = value]]

\* The session a call acts on: session_id: str = "default".  An omitted argument is
\* <<>>, a given one is <<id>>.
DefaultSession == "default"
\* A fault: the session_id argument is ignored.
SessionOfIgnoringArgument(sidArg) == DefaultSession
SessionOf(sidArg) == IF sidArg = <<>> THEN DefaultSession ELSE sidArg[1]

\* ------------------------------------------------------------------ sorting

\* The sort key of both sorts: x["total_cost"] in aggregate_costs, where every row
\* has the key, and float(x.get("total_cost", 0.0)) in compact_aggregated_costs.
SortKey(x) == Get(x, "total_cost", 0)

\* A fault: the sort is not stable, rows of equal key come out in reverse order.
RECURSIVE InsertBeforeEqual(_, _)
InsertBeforeEqual(sorted, x) ==
    IF sorted = <<>> THEN <<x>>
    ELSE IF SortKey(sorted[1]) > SortKey(x)
         THEN <<sorted[1]>> \o InsertBeforeEqual(Tail(sorted), x)
         ELSE <<x>> \o sorted

\* list.sort(key, reverse=True) and sorted(..., reverse=True): stable, descending.
\* Insert x behind every element whose key is >= x's key.
RECURSIVE InsertDesc(_, _)
InsertDesc(sorted, x) ==
    IF sorted = <<>> THEN <<x>>
    ELSE IF SortKey(sorted[1]) >= SortKey(x)
         THEN <<sorted[1]>> \o InsertDesc(Tail(sorted), x)
         ELSE <<x>> \o sorted

RECURSIVE SortLoop(_, _)
SortLoop(done, rest) ==
    IF rest = <<>> THEN done
    ELSE SortLoop(InsertDesc(done, rest[1]), Tail(rest))

StableSortDesc(s) == SortLoop(<<>>, s)

\* ---------------------------------------------------------------- aggregate

\* A fault: the bucket is looked up by region alone.
BucketIndexByRegion(totals, region, category) ==
    LET hits == {i \in 1..Len(totals) : totals[i].region = region}
    IN  IF hits = {} THEN 0 ELSE CHOOSE i \in hits : TRUE

\* Position of the bucket of (region, category) in totals, 0 when there is none.
BucketIndex(totals, region, category) ==
    LET hits == {i \in 1..Len(totals) :
                    totals[i].region = region /\ totals[i].category = category}
    IN  IF hits = {} THEN 0 ELSE CHOOSE i \in hits : TRUE

\* One iteration of the loop over records: totals is the dict's values in insertion order.
AggregateStep(totals, r) ==
    LET region == Get(r, "region", NoneLabel)
        category == Get(r, "category", NoneLabel)
        cost == Get(r, "cost", 0)
        hours == Get(r, "hours", 0)
        i == BucketIndex(totals, region, category)
        created == IF i = 0
                   THEN Append(totals, [region |-> region, category |-> category,
                                        total_cost |-> 0, hours |-> 0])
                   ELSE totals
        j == IF i = 0 THEN Len(created) ELSE i
    IN  [created EXCEPT ![j].total_cost = @ + cost, ![j].hours = @ + hours]

RECURSIVE AggregateLoop(_, _)
AggregateLoop(totals, records) ==
    IF records = <<>> THEN totals
    ELSE AggregateLoop(AggregateStep(totals, records[1]), Tail(records))

\* The list aggregate_costs returns.
AggregatedList(records) == StableSortDesc(AggregateLoop(<<>>, records))

\* A fault: the aggregated list is returned but not left in the session.
aggregate_costs_without_store(mem, records, session_id) ==
    [mem |-> get_session_memory(mem, session_id), ret |-> PyList(AggregatedList(records))]

\* aggregate_costs(records, session_id): the new store and the returned value.
aggregate_costs(mem, records, session_id) ==
    LET aggregated_list == AggregatedList(records)
    IN  [mem |-> StoreField(mem, session_id, "last_aggregated", PyList(aggregated_list)),
         ret |-> PyList(aggregated_list)]

\* ------------------------------------------------------------------ compact

\* A fault: the slice is one row too long.
SlicePrefixOneMore(s, k) ==
    SubSeq(s, 1, IF k + 1 < Len(s) THEN (IF k + 1 > 0 THEN k + 1 ELSE 0) ELSE Len(s))

\* s[:k]: a negative k counts from the end.
SlicePrefix(s, k) ==
    LET n == IF k >= 0 THEN (IF k < Len(s) THEN k ELSE Len(s))
             ELSE (IF Len(s) + k > 0 THEN Len(s) + k ELSE 0)
    IN  SubSeq(s, 1, n)

CompactedList(aggregated, max_rows) ==
    SlicePrefix(StableSortDesc(aggregated), max_rows)

DefaultMaxRows == 6

\* A fault: the result is stored in the aggregator's field.
compact_into_last_aggregated(mem, aggregated, max_rows, session_id) ==
    LET compacted == CompactedList(aggregated, max_rows)
    IN  [mem |-> StoreField(mem, session_id, "last_aggregated", PyList(compacted)),
         ret |-> PyList(compacted)]

\* compact_aggregated_costs(aggregated, max_rows, session_id)
compact_aggregated_costs(mem, aggregated, max_rows, session_id) ==
    LET compacted == CompactedList(aggregated, max_rows)
    IN  [mem |-> StoreField(mem, session_id, "last_compacted", PyList(compacted)),
         ret |-> PyList(compacted)]

\* -------------------------------------------------------------- json.loads

(* Serialized text is a sequence of JSON tokens: the punctuation "[", "]" and ",",
   and the literals: a number, a string, null, and an object literal (taken as one
   token, its keys and values being those of the dict d it denotes).             *)
TokOpen == [k |-> "["]
TokClose == [k |-> "]"]
TokComma == [k |-> ","]
TokNull == [k |-> "null"]
TokNum(n) == [k |-> "num", n |-> n]
TokStr(s) == [k |-> "string", s |-> s]
TokObj(d) == [k |-> "object", d |-> d]

EmptyDict == [key \in {} |-> 0]

ParseFail == [ok |-> FALSE, v |-> PyNone, next |-> 0]

RECURSIVE ParseValue(_, _)
RECURSIVE ParseItems(_, _, _)

\* The JSON value that starts at token i, and the position behind it.
ParseValue(toks, i) ==
    IF i > Len(toks) THEN ParseFail
    ELSE LET tok == toks[i] IN
         CASE tok.k = "num" -> [ok |-> TRUE, v |-> PyInt(tok.n), next |-> i + 1]
           [] tok.k = "string" -> [ok |-> TRUE, v |-> PyStr(tok.s), next |-> i + 1]
           [] tok.k = "null" -> [ok |-> TRUE, v |-> PyNone, next |-> i + 1]
           [] tok.k = "object" -> [ok |-> TRUE, v |-> PyDict(tok.d), next |-> i + 1]
           [] tok.k = "[" ->
                IF i + 1 <= Len(toks) /\ toks[i + 1].k = "]"
                THEN [ok |-> TRUE, v |-> PyList(<<>>), next |-> i + 2]
                ELSE ParseItems(toks, i + 1, <<>>)
           [] OTHER -> ParseFail

\* The items of an array whose first item starts at token i, up to its "]".
ParseItems(toks, i, items) ==
    LET item == ParseValue(toks, i) IN
    IF ~item.ok \/ item.next > Len(toks) THEN ParseFail
    ELSE CASE toks[item.next].k = "," -> ParseItems(toks, item.next + 1, Append(items, item.v))
           [] toks[item.next].k = "]" ->
                [ok |-> TRUE, v |-> PyList(Append(items, item.v)), next |-> item.next + 1]
           [] OTHER -> ParseFail

\* json.loads(text): ok is FALSE when it raises JSONDecodeError.
json_loads(toks) ==
    LET r == ParseValue(toks, 1)
    IN  IF r.ok /\ r.next = Len(toks) + 1 THEN [ok |-> TRUE, v |-> r.v]
        ELSE [ok |-> FALSE, v |-> PyNone]

\* --------------------------------------------------------------- formatting

Digits3(n) == (IF n < 10 THEN "00" ELSE IF n < 100 THEN "0" ELSE "") \o ToString(n)
Digits2(n) == (IF n < 10 THEN "0" ELSE "") \o ToString(n)

RECURSIVE Thousands(_)
Thousands(n) ==
    IF n < 1000 THEN ToString(n)
    ELSE Thousands(n \div 1000) \o "," \o Digits3(n % 1000)

\* f"{x:,.2f}" of x = c hundredths, c >= 0
FormatCost(c) == Thousands(c \div 100) \o "." \o Digits2(c % 100)

\* f"{x:.1f}" of x = h tenths, h >= 0
FormatHours(h) == ToString(h \div 10) \o "." \o ToString(h % 10)

RECURSIVE JoinLines(_)
\* "\n".join(lines)
JoinLines(lines) ==
    IF lines = <<>> THEN ""
    ELSE IF Len(lines) = 1 THEN lines[1]
    ELSE lines[1] \o "\n" \o JoinLines(Tail(lines))

\* ------------------------------------------------------------------- render

ParseErrorText == "Could not parse aggregated cost data."
NoDataText == "No cost data available."
NoSummaryText == "I don't have a previous summary stored yet in this session."

\* f"{region} | {category} | {total_cost:,.2f} | {hours:.1f}"
TableLine(row) ==
    Get(row, "region", "") \o " | " \o Get(row, "category", "") \o " | "
        \o FormatCost(Get(row, "total_cost", 0)) \o " | " \o FormatHours(Get(row, "hours", 0))

\* A fault: the first row is taken for the largest.
TopRowIsFirstRow(rows) == rows[1]

\* max(aggregated, key=lambda x: x["total_cost"]): the first row of maximal total_cost.
TopRow(rows) ==
    LET best == CHOOSE i \in 1..Len(rows) :
                    /\ \A j \in 1..Len(rows) : rows[j].total_cost <= rows[i].total_cost
                    /\ \A j \in 1..(i - 1) : rows[j].total_cost < rows[i].total_cost
    IN  rows[best]

\* sum(r["total_cost"] for r in aggregated if r["category"] == category)
CategoryTotal(rows, category) ==
    SumSeq([i \in 1..Len(rows) |->
               IF rows[i].category = category THEN rows[i].total_cost ELSE 0])

\* table_md of build_cost_table: the two header lines and one line per row.
TableMd(rows) ==
    JoinLines(<<"Region | Category | Total Cost ($) | Hours", "---|---|---|---">>
                  \o [i \in 1..Len(rows) |-> TableLine(rows[i])])

\* "\n".join(summary_lines).  The code's en dash between region and category is
\* written "-".
Narrative(rows) ==
    LET top == TopRow(rows) IN
    JoinLines(
        << "Here's a summary of the wildfire costs based on the synthetic data:\n",
           "**Key Insights:**",
           "- **Largest Single Bucket:** " \o top.region \o " - " \o top.category
               \o " at $" \o FormatCost(top.total_cost) \o ".",
           "- **By Category:** Aircraft ($" \o FormatCost(CategoryTotal(rows, "aircraft"))
               \o "), Personnel ($" \o FormatCost(CategoryTotal(rows, "personnel"))
               \o "), Equipment ($" \o FormatCost(CategoryTotal(rows, "equipment")) \o ").",
           "- Aircraft is the dominant cost driver across regions, "
               \o "with personnel generally higher than equipment." >>)

\* final_summary of build_cost_table for a non-empty list of dicts that hold the keys
\* the narrative reads.
FinalSummary(rows) == TableMd(rows) \o "\n\n" \o Narrative(rows)

\* What iterating over the parsed value yields: a list's items, a dict's keys, a
\* string's characters (a key and a character are both a str).
IterItems(v) ==
    CASE v.t = "list" -> v.items
      [] v.t = "dict" -> [i \in 1..Cardinality(DOMAIN v.d) |-> PyStr("key")]
      [] v.t = "str" -> IF v.s = "" THEN <<>> ELSE <<PyStr("char")>>
      [] OTHER -> <<>>

\* The exception the rendering of a non-empty value raises, "" when it raises none:
\* row.get on an item that is no dict (line 246), x["total_cost"] on a row without
\* that key (line 254), top["region"] (line 255), r["category"] (lines 256-266).
RenderException(items) ==
    IF \E i \in 1..Len(items) : items[i].t # "dict" THEN "AttributeError"
    ELSE IF \E i \in 1..Len(items) : "total_cost" \notin DOMAIN items[i].d THEN "KeyError"
    ELSE LET rows == [i \in 1..Len(items) |-> items[i].d] IN
         IF "region" \notin DOMAIN TopRow(rows)
             \/ \E i \in 1..Len(rows) : "category" \notin DOMAIN rows[i]
         THEN "KeyError" ELSE ""

\* return "Could not parse aggregated cost data." (line 237)
ParseErrorResult(mem, session_id) == [mem |-> mem, ret |-> PyStr(ParseErrorText)]

\* A fault: the fixed text is stored as the session's last summary.
NoDataResultStored(mem, session_id) ==
    [mem |-> StoreField(mem, session_id, "last_summary", PyStr(NoDataText)),
     ret |-> PyStr(NoDataText)]

\* return "No cost data available." (line 241)
NoDataResult(mem, session_id) == [mem |-> mem, ret |-> PyStr(NoDataText)]

\* build_cost_table(aggregated, session_id): aggregated is a PyList of PyDict rows
\* or a PyText.
build_cost_table(mem, aggregated, session_id) ==
    LET isText == aggregated.t = "str"
        parsed == IF isText THEN json_loads(aggregated.toks) ELSE [ok |-> TRUE, v |-> aggregated]
        \* len(aggregated) in the logging call inside the try block
        lenFails == parsed.ok /\ parsed.v.t \notin {"list", "dict", "str"}
        value == parsed.v
        items == IterItems(value)
    IN  IF isText /\ (~parsed.ok \/ lenFails)
        THEN ParseErrorResult(mem, session_id)
        ELSE IF items = <<>>
        THEN NoDataResult(mem, session_id)
        ELSE IF RenderException(items) # ""
        THEN [mem |-> mem, ret |-> Raised(RenderException(items))]
        ELSE LET final_summary == FinalSummary([i \in 1..Len(items) |-> items[i].d])
             IN  [mem |-> StoreField(mem, session_id, "last_summary", PyStr(final_summary)),
                  ret |-> PyStr(final_summary)]

\* A fault: the summary is read from the default session whatever session_id is.
get_last_summary_of_default(mem, session_id) ==
    LET m == get_session_memory(get_session_memory(mem, session_id), DefaultSession)
        summary == m[DefaultSession].last_summary
    IN  IF summary.t = "None" \/ (summary.t = "str" /\ summary.s = "")
        THEN [mem |-> m, ret |-> PyStr(NoSummaryText)]
        ELSE [mem |-> m, ret |-> summary]

\* get_last_summary(session_id)
get_last_summary(mem, session_id) ==
    LET m == get_session_memory(mem, session_id)
        summary == m[session_id].last_summary
    IN  IF summary.t = "None" \/ (summary.t = "str" /\ summary.s = "")
        THEN [mem |-> m, ret |-> PyStr(NoSummaryText)]
        ELSE [mem |-> m, ret |-> summary]

\* --------------------------------------------------------------------- load

\* data of load_mock_wildfire_costs: cost in hundredths, hours in tenths.
MockData ==
    << [region |-> "South", category |-> "aircraft", cost |-> 17687051, hours |-> 1169],
       [region |-> "Central", category |-> "aircraft", cost |-> 16192360, hours |-> 1027],
       [region |-> "Northwest", category |-> "aircraft", cost |-> 15452782, hours |-> 948],
       [region |-> "Northeast", category |-> "aircraft", cost |-> 13190583, hours |-> 1232],
       [region |-> "Central", category |-> "personnel", cost |-> 9726643, hours |-> 0],
       [region |-> "Northeast", category |-> "personnel", cost |-> 8448965, hours |-> 0],
       [region |-> "Northwest", category |-> "personnel", cost |-> 7656823, hours |-> 0],
       [region |-> "South", category |-> "personnel", cost |-> 7401179, hours |-> 0],
       [region |-> "Central", category |-> "equipment", cost |-> 6687706, hours |-> 0],
       [region |-> "Northeast", category |-> "equipment", cost |-> 6146099, hours |-> 0],
       [region |-> "Northwest", category |-> "equipment", cost |-> 5881248, hours |-> 0],
       [region |-> "South", category |-> "equipment", cost |-> 4916494, hours |-> 0] >>

DefaultYear == 2024

\* load_mock_wildfire_costs(year, session_id)
load_mock_wildfire_costs(mem, year, session_id) ==
    LET m1 == StoreField(mem, session_id, "last_year", PyInt(year))
    IN  [mem |-> StoreField(m1, session_id, "last_raw_records", PyList(MockData)),
         ret |-> PyList(MockData)]

\* ------------------------------------------------------------------- lookup

NotConfiguredText ==
    "Google Custom Search is not configured. "
        \o "Set GOOGLE_SEARCH_API_KEY (or GOOGLE_API_KEY) and "
        \o "GOOGLE_SEARCH_CX (or GOOGLE_CSE_ID) in wildfire_agent/.env."
NoResultsText == "No search results found."
SearchItemsKept == 3

\* f"- **{title}** - {snippet} ({link})"; the snippets of the model hold no newline and
\* no blank at either end, so that replace("\n", " ").strip() leaves them as they are.
Bullet(item) ==
    "- **" \o Get(item, "title", "Untitled result") \o "** - " \o Get(item, "snippet", "")
        \o " (" \o Get(item, "link", "") \o ")"

\* google_search(query, session_id), the service answering with response: either
\* [ok |-> FALSE, error |-> e] (requests.get, raise_for_status or resp.json raised e)
\* or [ok |-> TRUE, items |-> the "items" of the JSON answer].
google_search(mem, isConfigured, query, response, session_id) ==
    IF ~isConfigured THEN [mem |-> mem, ret |-> PyStr(NotConfiguredText)]
    ELSE IF ~response.ok
    THEN [mem |-> mem, ret |-> PyStr("Error calling Google Custom Search: " \o response.error)]
    ELSE LET items == SlicePrefix(response.items, SearchItemsKept) IN
         IF items = <<>> THEN [mem |-> mem, ret |-> PyStr(NoResultsText)]
         ELSE LET result_text == "Top results from Google Search:\n\n"
                                    \o JoinLines([i \in 1..Len(items) |-> Bullet(items[i])])
                  m1 == StoreField(mem, session_id, "last_search_query", PyStr(query))
              IN  [mem |-> StoreField(m1, session_id, "last_search_results", PyStr(result_text)),
                   ret |-> PyStr(result_text)]

\* ------------------------------------------------------------------ history

NothingWritten == [field \in {} |-> PyNone]


(* history is a record of the calls made, kept beside the program's state: for each
   session, the value each stage's most recent writing call produced, and what the
   most recent build_cost_table call of any outcome returned.                    *)
SessionIds == {"default", "s1"}

NoHistory ==
    [last_year |-> PyNone, last_raw_records |-> PyNone, last_aggregated |-> PyNone,
     last_compacted |-> PyNone, last_summary |-> PyNone,
     last_search_query |-> PyNone, last_search_results |-> PyNone,
     last_render |-> PyNone]

\* The session the caller of a tool addresses: the one it names, "default" when it
\* names none.
Addressed(sidArg) == IF sidArg = <<>> THEN "default" ELSE sidArg[1]

NoCall == [op |-> "none", sidArg |-> <<>>, arg |-> PyNone, max_rows |-> 0, ret |-> PyNone]

\* What a call of a tool does: the store becomes r.mem, the call and what it wrote
\* are recorded.
Effect(op, sidArg, arg, max_rows, r, wrote) ==
    /\ SESSION_MEMORY' = r.mem
    /\ call' = [op |-> op, sidArg |-> sidArg, arg |-> arg, max_rows |-> max_rows, ret |-> r.ret]
    /\ history' = [history EXCEPT ![Addressed(sidArg)] = wrote @@ @]
    /\ ncalls' = ncalls + 1
    /\ UNCHANGED <<configured, input>>

\* No pipeline run: no caller holds a result, no session has a writer.
NoWriter == [last_aggregated |-> 0, last_compacted |-> 0, last_summary |-> 0]
NoPipeline ==
    [runs |-> <<>>,
     overlapped |-> [s \in SessionIds |-> FALSE],
     writer |-> [s \in SessionIds |-> NoWriter]]

\* A call of a tool that is not a stage of a pipeline run.
Step(op, sidArg, arg, max_rows, r, wrote) ==
    /\ Effect(op, sidArg, arg, max_rows, r, wrote)
    /\ UNCHANGED pipeline

\* ------------------------------------------------------------------ actions

LoadCall(year, sidArg) ==
    LET r == load_mock_wildfire_costs(SESSION_MEMORY, year, SessionOf(sidArg))
    IN  Step("load_mock_wildfire_costs", sidArg, PyInt(year), 0, r,
             [last_year |-> PyInt(year), last_raw_records |-> r.ret])

AggregateCall(records, sidArg) ==
    LET r == aggregate_costs(SESSION_MEMORY, records, SessionOf(sidArg))
    IN  Step("aggregate_costs", sidArg, PyList(records), 0, r, [last_aggregated |-> r.ret])

\* kArg is <<>> when max_rows is omitted.
CompactCall(aggregated, kArg, sidArg) ==
    LET max_rows == IF kArg = <<>> THEN DefaultMaxRows ELSE kArg[1]
        r == compact_aggregated_costs(SESSION_MEMORY, aggregated, max_rows, SessionOf(sidArg))
    IN  Step("compact_aggregated_costs", sidArg, PyList(aggregated), max_rows, r,
             [last_compacted |-> r.ret])

\* The argument of build_cost_table that is the Python list of the row dicts rows.
RowsArg(rows) == PyList([i \in 1..Len(rows) |-> PyDict(rows[i])])

IsReport(ret) == ret.t = "str" /\ ret.s \notin {ParseErrorText, NoDataText}

RenderCall(aggregated, sidArg) ==
    LET r == build_cost_table(SESSION_MEMORY, aggregated, SessionOf(sidArg))
    IN  Step("build_cost_table", sidArg, aggregated, 0, r,
             IF IsReport(r.ret) THEN [last_summary |-> r.ret, last_render |-> r.ret]
             ELSE IF r.ret.t = "raised" THEN NothingWritten
             ELSE [last_render |-> r.ret])

GetLastSummaryCall(sidArg) ==
    LET r == get_last_summary(SESSION_MEMORY, SessionOf(sidArg))
    IN  Step("get_last_summary", sidArg, PyNone, 0, r, NothingWritten)

SearchCall(query, response, sidArg) ==
    LET r == google_search(SESSION_MEMORY, configured, query, response, SessionOf(sidArg))
    IN  Step("google_search", sidArg, PyStr(query), 0, r,
             IF configured /\ response.ok /\ response.items # <<>>
             THEN [last_search_query |-> PyStr(query), last_search_results |-> r.ret]
             ELSE NothingWritten)

\* ------------------------------------------------- the session store at work

(* Spec: the six tools called in any order, on two sessions, with a few arguments
   each: enough for every field of a session to be written, and overwritten with
   another value.                                                                *)

\* session_id omitted, or given.
SessionArgs == {<<>>, <<"s1">>}

\* The records of the end-to-end scenario: South/aircraft twice, North/personnel once.
ScenarioRecords ==
    << [region |-> "South", category |-> "aircraft", cost |-> 10000, hours |-> 50],
       [region |-> "South", category |-> "aircraft", cost |-> 5000, hours |-> 20],
       [region |-> "North", category |-> "personnel", cost |-> 3000, hours |-> 0] >>

ScenarioAggregated == AggregatedList(ScenarioRecords)

\* json.dumps(rows): "[", the object literals separated by ",", "]".
RECURSIVE DumpItems(_)
DumpItems(rows) ==
    IF rows = <<>> THEN <<>>
    ELSE IF Len(rows) = 1 THEN <<TokObj(rows[1])>>
    ELSE <<TokObj(rows[1]), TokComma>> \o DumpItems(Tail(rows))

DumpRows(rows) == PyText(<<TokOpen>> \o DumpItems(rows) \o <<TokClose>>)

StoreYears == {DefaultYear, DefaultYear + 1}
StoreRecords == {<<>>, ScenarioRecords}
StoreMaxRows == {<<>>, <<1>>}
StoreRenderArgs ==
    { RowsArg(<<>>), RowsArg(ScenarioAggregated), DumpRows(SlicePrefix(ScenarioAggregated, 1)),
      DumpRows(<<>>), PyText(<<TokObj(EmptyDict)>>), PyText(<<TokOpen>>),
      PyText(<<TokOpen, TokNum(1), TokClose>>) }
StoreQueries == {"wildfire suppression costs"}
StoreResponses ==
    { [ok |-> FALSE, error |-> "timed out"],
      [ok |-> TRUE, items |-> <<>>],
      [ok |-> TRUE, items |-> <<[title |-> "Fire costs", snippet |-> "rising", link |-> "https://example.org"]>>] }

Init ==
    /\ SESSION_MEMORY = [s \in {} |-> NewSessionMemory]
    /\ configured \in BOOLEAN
    /\ call = NoCall
    /\ input = PyNone
    /\ history = [s \in SessionIds |-> NoHistory]
    /\ ncalls = 0
    /\ pipeline = NoPipeline

Load ==
    /\ ncalls < MaxCalls
    /\ \E year \in StoreYears, sidArg \in SessionArgs : LoadCall(year, sidArg)

Aggregate ==
    /\ ncalls < MaxCalls
    /\ \E records \in StoreRecords, sidArg \in SessionArgs : AggregateCall(records, sidArg)

Compact ==
    /\ ncalls < MaxCalls
    /\ \E kArg \in StoreMaxRows, sidArg \in SessionArgs :
          CompactCall(ScenarioAggregated, kArg, sidArg)

Render ==
    /\ ncalls < MaxCalls
    /\ \E aggregated \in StoreRenderArgs, sidArg \in SessionArgs : RenderCall(aggregated, sidArg)

GetLastSummary ==
    /\ ncalls < MaxCalls
    /\ \E sidArg \in SessionArgs : GetLastSummaryCall(sidArg)

Search ==
    /\ ncalls < MaxCalls
    /\ \E query \in StoreQueries, response \in StoreResponses, sidArg \in SessionArgs :
          SearchCall(query, response, sidArg)

Next == Load \/ Aggregate \/ Compact \/ Render \/ GetLastSummary \/ Search

Spec == Init /\ [][Next]_vars

\* ------------------------------------------------------ one function at work

Regions == {"South", "North"}
Categories == {"aircraft", "personnel"}
HourValues == {0, 5}

InitWith(inputs) ==
    /\ SESSION_MEMORY = [s \in {} |-> NewSessionMemory]
    /\ configured = FALSE
    /\ call = NoCall
    /\ input \in inputs
    /\ history = [s \in SessionIds |-> NoHistory]
    /\ ncalls = 0
    /\ pipeline = NoPipeline

Restrict(d, keys) == [key \in keys |-> d[key]]

\* Records: every field present, or (three of them) some fields missing.
FullRecords ==
    [region : Regions, category : Categories, cost : 0..MaxCost, hours : HourValues]
Records ==
    FullRecords \cup
        { [region |-> "South", category |-> "aircraft"],
          [category |-> "aircraft", cost |-> 1, hours |-> 5],
          [region |-> "North", cost |-> 1] }

(* SpecAggregate: aggregate_costs applied to any sequence of at most MaxRecords
   records.                                                                      *)
InitAggregate == \E n \in 0..MaxRecords : InitWith([1..n -> Records])

AggregateInput == call.op = "none" /\ AggregateCall(input, <<>>)

NextAggregate == AggregateInput

SpecAggregate == InitAggregate /\ [][NextAggregate]_vars

\* Rows of an aggregated sequence, in any order; one of them has no total_cost.
Rows ==
    [region : Regions, category : {"aircraft"}, total_cost : 0..MaxTotal, hours : {0}]
        \cup { [region |-> "South", category |-> "personnel", hours |-> 0] }

(* SpecCompact: compact_aggregated_costs applied to any sequence of at most MaxRows
   rows with any max_rows from -1 to MaxK, and then to its own result.           *)
InitCompact ==
    \E n \in 0..MaxRows : InitWith([rows : [1..n -> Rows], max_rows : (-1)..MaxK])

CompactInput == call.op = "none" /\ CompactCall(input.rows, <<input.max_rows>>, <<>>)

CompactAgain ==
    /\ call.op = "compact_aggregated_costs"
    /\ ncalls < MaxCalls
    /\ CompactCall(call.ret.items, <<input.max_rows>>, <<>>)

NextCompact == CompactInput \/ CompactAgain

SpecCompact == InitCompact /\ [][NextCompact]_vars

\* Rows to render; two of them lack a key the narrative reads.
RenderRows ==
    [region : Regions, category : Categories, total_cost : 0..MaxTotal, hours : {5}]
        \cup { [region |-> "South", category |-> "aircraft", hours |-> 0],
               [region |-> "North", total_cost |-> 1, hours |-> 0] }

Tokens ==
    { TokOpen, TokClose, TokComma, TokNull, TokNum(1), TokStr(""), TokStr("abc"),
      TokObj(EmptyDict),
      TokObj([region |-> "South", category |-> "aircraft", total_cost |-> 2, hours |-> 5]),
      TokObj([region |-> "North", category |-> "personnel", total_cost |-> 1, hours |-> 0]) }

Injections(n) == {p \in [1..n -> 1..n] : \A i, j \in 1..n : p[i] = p[j] => i = j}

(* SpecRender: build_cost_table applied to any list of at most MaxRenderRows rows or
   any text of at most MaxTextLen tokens, and then to the same rows in another
   order.                                                                        *)
InitRender ==
    \/ \E n \in 0..MaxRenderRows : InitWith({RowsArg(rows) : rows \in [1..n -> RenderRows]})
    \/ \E n \in 0..MaxTextLen : InitWith({PyText(toks) : toks \in [1..n -> Tokens]})

RenderInput == call.op = "none" /\ RenderCall(input, <<>>)

RenderReordered ==
    /\ call.op = "build_cost_table"
    /\ ncalls < MaxCalls
    /\ input.t = "list"
    /\ \E p \in Injections(Len(input.items)) :
          RenderCall(PyList([i \in 1..Len(input.items) |-> input.items[p[i]]]), <<>>)

NextRender == RenderInput \/ RenderReordered

SpecRender == InitRender /\ [][NextRender]_vars

\* ------------------------------------------------------- the pipeline at work

(* SpecPipeline: MaxRuns pipeline runs.  A run is a caller that passes its records
   to aggregate_costs, the list that call returned to compact_aggregated_costs, and
   the list that call returned to build_cost_table, all three with the session
   identifier of the run.  The store neither orders nor isolates the calls
   (main_agent.py:44 is a plain dict, the tools take no lock), so the stage calls of
   the runs are taken in any order: one run after the other, or interleaved.     *)

RunIds == 1..MaxRuns

OtherRecords ==
    << [region |-> "West", category |-> "equipment", cost |-> 20000, hours |-> 10],
       [region |-> "East", category |-> "aircraft", cost |-> 7000, hours |-> 30] >>

\* What a run is asked: no records, the scenario cut to one row, two other records.
PipelineRequests ==
    << [records |-> <<>>, kArg |-> <<>>],
       [records |-> ScenarioRecords, kArg |-> <<1>>],
       [records |-> OtherRecords, kArg |-> <<>>] >>

\* A run that has made no call yet.
NewRun(sidArg, records, kArg) ==
    [sidArg |-> sidArg, records |-> records, kArg |-> kArg,
     pc |-> "ready", aggregated |-> <<>>, compacted |-> <<>>]

\* The runs there can be: each request, on the default session and on session "s1".
PipelineInputs ==
    LET n == Len(PipelineRequests)
    IN  [i \in 1..(2 * n) |->
            LET request == PipelineRequests[((i - 1) % n) + 1]
            IN  NewRun(IF i <= n THEN <<>> ELSE <<"s1">>, request.records, request.kArg)]

RunSession(r) == Addressed(pipeline.runs[r].sidArg)

\* A run is in flight between its first call and its last.
InFlight(r) == pipeline.runs[r].pc \in {"aggregated", "compacted"}

InitPipeline ==
    /\ SESSION_MEMORY = [s \in {} |-> NewSessionMemory]
    /\ configured = FALSE
    /\ call = NoCall
    /\ input = PyNone
    /\ history = [s \in SessionIds |-> NoHistory]
    /\ ncalls = 0
    \* The number of a run has no meaning: the runs are numbered in the order of
    \* PipelineInputs.
    /\ \E chosen \in [RunIds -> 1..Len(PipelineInputs)] :
          /\ \A i, j \in RunIds : i < j => chosen[i] <= chosen[j]
          /\ pipeline = [NoPipeline EXCEPT !.runs = [r \in RunIds |-> PipelineInputs[chosen[r]]]]

\* The first stage of run r: aggregate_costs(records, session_id).
RunAggregate(r) ==
    LET run == pipeline.runs[r]
        res == aggregate_costs(SESSION_MEMORY, run.records, SessionOf(run.sidArg))
    IN  /\ run.pc = "ready"
        /\ Effect("aggregate_costs", run.sidArg, PyList(run.records), 0, res,
                  [last_aggregated |-> res.ret])
        /\ pipeline' =
              [pipeline EXCEPT
                 !.runs[r] = [@ EXCEPT !.pc = "aggregated", !.aggregated = res.ret.items],
                 !.overlapped[RunSession(r)] =
                     @ \/ \E o \in RunIds \ {r} : RunSession(o) = RunSession(r) /\ InFlight(o),
                 !.writer[RunSession(r)].last_aggregated = r]

\* The second stage: compact_aggregated_costs(aggregated, max_rows, session_id) on
\* the list the first stage returned.
RunCompact(r) ==
    LET run == pipeline.runs[r]
        max_rows == IF run.kArg = <<>> THEN DefaultMaxRows ELSE run.kArg[1]
        res == compact_aggregated_costs(SESSION_MEMORY, run.aggregated, max_rows,
                                        SessionOf(run.sidArg))
    IN  /\ run.pc = "aggregated"
        /\ Effect("compact_aggregated_costs", run.sidArg, PyList(run.aggregated), max_rows,
                  res, [last_compacted |-> res.ret])
        /\ pipeline' =
              [pipeline EXCEPT
                 !.runs[r] = [@ EXCEPT !.pc = "compacted", !.compacted = res.ret.items],
                 !.writer[RunSession(r)].last_compacted = r]

\* The third stage: build_cost_table(aggregated, session_id) on the list the second
\* stage returned.
RunRender(r) ==
    LET run == pipeline.runs[r]
        res == build_cost_table(SESSION_MEMORY, RowsArg(run.compacted), SessionOf(run.sidArg))
    IN  /\ run.pc = "compacted"
        /\ Effect("build_cost_table", run.sidArg, RowsArg(run.compacted), 0, res,
                  IF IsReport(res.ret) THEN [last_summary |-> res.ret, last_render |-> res.ret]
                  ELSE [last_render |-> res.ret])
        /\ pipeline' =
              [pipeline EXCEPT
                 !.runs[r] = [@ EXCEPT !.pc = "done"],
                 !.writer[RunSession(r)].last_summary = IF IsReport(res.ret) THEN r ELSE @]

StageAggregate == \E r \in RunIds : RunAggregate(r)
StageCompact == \E r \in RunIds : RunCompact(r)
StageRender == \E r \in RunIds : RunRender(r)

NextPipeline == StageAggregate \/ StageCompact \/ StageRender

SpecPipeline == InitPipeline /\ [][NextPipeline]_vars

\* =================================================================== claims

MemoryFields ==
    {"last_year", "last_raw_records", "last_aggregated", "last_compacted",
     "last_summary", "last_search_query", "last_search_results"}

\* The session the last call addressed.
CallSession == Addressed(call.sidArg)

\* ------------------------------------------------------------------------ C1

(* C1 as stated: get_last_summary(s) returns the fixed sentinel when no
   build_cost_table(_, s) call was made before it, and otherwise exactly the string
   the most recent build_cost_table(_, s) call returned, whatever that call's input
   was (rows, no rows, unparsable text).                                         *)
C1_LastReportIsLastRenderOutput ==
    call.op = "get_last_summary" =>
        call.ret = IF history[CallSession].last_render.t = "None"
                   THEN PyStr(NoSummaryText)
                   ELSE history[CallSession].last_render

(* C1 amended: get_last_summary(s) returns the fixed sentinel when no
   build_cost_table(_, s) call has returned a rendered report before it, and
   otherwise exactly the report returned by the most recent build_cost_table(_, s)
   call that rendered one; calls that returned "No cost data available." or "Could
   not parse aggregated cost data." do not count.                                *)
C1_LastReportIsLastRenderedReport ==
    call.op = "get_last_summary" =>
        call.ret = IF history[CallSession].last_summary.t = "None"
                   THEN PyStr(NoSummaryText)
                   ELSE history[CallSession].last_summary

\* A report was rendered, a later call for the same session rendered none, and the
\* report is what get_last_summary returns.
C1_Witness ==
    /\ call.op = "get_last_summary"
    /\ history[CallSession].last_summary.t = "str"
    /\ history[CallSession].last_render # history[CallSession].last_summary
    /\ call.ret = history[CallSession].last_summary

\* ------------------------------------------------------------------------ C2

(* C2: last writer wins, field by field: in every session each field holds the value
   written by the most recent writing call of the field's own stage made with that
   session (None, or no entry at all, when there was no such call); hence a call
   of one stage changes no field of another stage.                               *)
C2_LastWriterWinsPerField ==
    \A s \in SessionIds :
        IF s \in DOMAIN SESSION_MEMORY
        THEN \A field \in MemoryFields : SESSION_MEMORY[s][field] = history[s][field]
        ELSE \A field \in MemoryFields : history[s][field] = PyNone

\* A third call, of the aggregator, in a session whose compacted rows and report
\* were written before: it wrote its own field and the two others are still there.
C2_Witness ==
    /\ ncalls = 3
    /\ call.op = "aggregate_costs"
    /\ CallSession \in DOMAIN SESSION_MEMORY
    /\ SESSION_MEMORY[CallSession].last_aggregated = call.ret
    /\ SESSION_MEMORY[CallSession].last_compacted.t = "list"
    /\ SESSION_MEMORY[CallSession].last_summary.t = "str"

\* ------------------------------------------------------------------------ C3

(* C3: session isolation: a call made with session s (the session "default" when
   the call names none) leaves the entry of every other session t as it was: no
   field of t changes, and t's entry is neither created nor removed.             *)
C3_SessionIsolation ==
    [][\A t \in SessionIds :
          t # Addressed(call'.sidArg) =>
              /\ (t \in DOMAIN SESSION_MEMORY') = (t \in DOMAIN SESSION_MEMORY)
              /\ t \in DOMAIN SESSION_MEMORY => SESSION_MEMORY'[t] = SESSION_MEMORY[t]]_vars

\* A call that names no session wrote the default session while the session "s1"
\* holds other aggregated rows.
C3_Witness ==
    /\ call.op = "aggregate_costs"
    /\ call.sidArg = <<>>
    /\ DOMAIN SESSION_MEMORY = {"default", "s1"}
    /\ SESSION_MEMORY["default"].last_aggregated = call.ret
    /\ SESSION_MEMORY["s1"].last_aggregated.t = "list"
    /\ SESSION_MEMORY["s1"].last_aggregated # call.ret

\* ------------------------------------------------------------------------ C4

(* C4 as stated: get_last_summary(s) changes nothing: the set of sessions in the
   store and every field of every session are the same after the call as before. *)
C4_RetrievalChangesNothing ==
    [][call'.op = "get_last_summary" => SESSION_MEMORY' = SESSION_MEMORY]_vars

(* C4 amended: get_last_summary(s) changes no field of any session that has an
   entry and adds no entry for another session; the one change it can make is to
   create the entry of s, every field None, when s had no entry yet.             *)
C4_RetrievalOnlyCreatesEmptyEntry ==
    [][call'.op = "get_last_summary" =>
          /\ \A t \in DOMAIN SESSION_MEMORY :
                t \in DOMAIN SESSION_MEMORY' /\ SESSION_MEMORY'[t] = SESSION_MEMORY[t]
          /\ DOMAIN SESSION_MEMORY' = DOMAIN SESSION_MEMORY \cup {Addressed(call'.sidArg)}
          /\ Addressed(call'.sidArg) \notin DOMAIN SESSION_MEMORY =>
                SESSION_MEMORY'[Addressed(call'.sidArg)] = NewSessionMemory]_vars

\* get_last_summary was the first call for "s1": it returned the sentinel and the
\* store now holds an entry for "s1", every field None, beside a session with data.
C4_Witness ==
    /\ call.op = "get_last_summary"
    /\ call.sidArg = <<"s1">>
    /\ call.ret = PyStr(NoSummaryText)
    /\ DOMAIN SESSION_MEMORY = {"default", "s1"}
    /\ SESSION_MEMORY["s1"] = NewSessionMemory
    /\ SESSION_MEMORY["default"].last_summary.t = "str"

\* ------------------------------------------------------------------------ C5

\* No rows: the empty list, or the text "[]" or "{}".
NoRows(arg) ==
    arg \in {PyList(<<>>), PyText(<<TokOpen, TokClose>>), PyText(<<TokObj(EmptyDict)>>)}

(* C5: build_cost_table called with no rows (an empty list, or text that decodes to
   an empty collection) returns exactly "No cost data available." and leaves the
   store as it was: no entry is created, and a report stored before is kept.     *)
C5_EmptyRenderLeavesStore ==
    [][call'.op = "build_cost_table" /\ NoRows(call'.arg) =>
          /\ call'.ret = PyStr(NoDataText)
          /\ SESSION_MEMORY' = SESSION_MEMORY]_vars

\* build_cost_table was called with the text "[]" in a session that holds a report.
C5_Witness ==
    /\ call.op = "build_cost_table"
    /\ call.arg = PyText(<<TokOpen, TokClose>>)
    /\ call.ret = PyStr(NoDataText)
    /\ CallSession \in DOMAIN SESSION_MEMORY
    /\ SESSION_MEMORY[CallSession].last_summary.t = "str"
    /\ SESSION_MEMORY[CallSession].last_summary = history[CallSession].last_summary

\* ------------------------------------------------------------------------ C6

PairOf(r) == <<Get(r, "region", NoneLabel), Get(r, "category", NoneLabel)>>

\* The sum of a field (0 where it is missing) over the records of a pair.
SumOver(records, pair, field) ==
    SumSeq([i \in 1..Len(records) |->
               IF PairOf(records[i]) = pair THEN Get(records[i], field, 0) ELSE 0])

(* C6: aggregate_costs(R) holds exactly one row for each (region, category) pair
   that occurs in R and no other row; a row's total_cost and hours are the sums of
   cost and hours over the records of its pair; the total_cost of all rows sum to
   the cost of all records; no records give no rows.                             *)
C6_AggregateGroupsAndSums ==
    call.op = "aggregate_costs" =>
        LET R == call.arg.items
            out == call.ret.items
        IN  /\ \A i \in 1..Len(R) :
                  Cardinality({j \in 1..Len(out) : PairOf(out[j]) = PairOf(R[i])}) = 1
            /\ \A j \in 1..Len(out) :
                  /\ \E i \in 1..Len(R) : PairOf(R[i]) = PairOf(out[j])
                  /\ out[j].total_cost = SumOver(R, PairOf(out[j]), "cost")
                  /\ out[j].hours = SumOver(R, PairOf(out[j]), "hours")
            /\ SumSeq([j \in 1..Len(out) |-> out[j].total_cost])
                   = SumSeq([i \in 1..Len(R) |-> Get(R[i], "cost", 0)])
            /\ R = <<>> => out = <<>>

\* Three records gave two rows: two records of one pair were summed.
C6_Witness ==
    /\ call.op = "aggregate_costs"
    /\ Len(call.arg.items) = 3
    /\ Len(call.ret.items) = 2
    /\ \E j \in 1..2 : \E i1, i2 \in 1..3 :
          /\ i1 # i2
          /\ PairOf(call.arg.items[i1]) = PairOf(call.ret.items[j])
          /\ PairOf(call.arg.items[i2]) = PairOf(call.ret.items[j])
          /\ call.ret.items[j].total_cost = 2

\* ------------------------------------------------------------------------ C7

Count(s, x) == Cardinality({i \in 1..Len(s) : s[i] = x})
Range(s) == {s[i] : i \in 1..Len(s)}
Min(a, b) == IF a < b THEN a ELSE b
\* total_cost of a row, 0 where the row has none.
TotalCost(x) == Get(x, "total_cost", 0)

(* C7: for max_rows = k >= 0, compact_aggregated_costs(A, k) returns exactly
   min(k, len(A)) rows, all of them rows of A, in descending total_cost order, and
   every row it keeps has a total_cost >= that of every row it drops.            *)
C7_CompactKeepsTheLargest ==
    call.op = "compact_aggregated_costs" /\ call.max_rows >= 0 =>
        LET A == call.arg.items
            out == call.ret.items
            dropped == {x \in Range(A) : Count(A, x) > Count(out, x)}
        IN  /\ Len(out) = Min(call.max_rows, Len(A))
            /\ \A x \in Range(out) : Count(out, x) <= Count(A, x)
            /\ \A i \in 1..(Len(out) - 1) : TotalCost(out[i]) >= TotalCost(out[i + 1])
            /\ \A x \in Range(out), y \in dropped : TotalCost(x) >= TotalCost(y)

\* Three rows that were not in descending order were cut to two.
C7_Witness ==
    /\ call.op = "compact_aggregated_costs"
    /\ call.max_rows = 2
    /\ Len(call.arg.items) = 3
    /\ Len(call.ret.items) = 2
    /\ TotalCost(call.arg.items[1]) < TotalCost(call.arg.items[3])
    /\ TotalCost(call.ret.items[2]) > TotalCost(call.arg.items[1])

\* ------------------------------------------------------------------------ C8

RowsOf(arg) == [i \in 1..Len(arg.items) |-> arg.items[i].d]

\* b lists the items of a in some order.
IsReordering(a, b) ==
    /\ Len(a) = Len(b)
    /\ \A x \in Range(a) \cup Range(b) : Count(a, x) = Count(b, x)

\* Two successive build_cost_table calls on the same non-empty rows, perhaps in
\* another order.
RenderedTwice ==
    /\ call.op = "build_cost_table" /\ call'.op = "build_cost_table"
    /\ call.arg.t = "list" /\ call'.arg.t = "list"
    /\ call.arg.items # <<>>
    /\ IsReordering(call.arg.items, call'.arg.items)

\* Exactly one row holds the largest total_cost.
OneLargest(rows) ==
    Cardinality({i \in 1..Len(rows) :
                    \A j \in 1..Len(rows) : TotalCost(rows[j]) <= TotalCost(rows[i])}) = 1

EncodesRows(toks) ==
    LET r == json_loads(toks)
    IN  r.ok /\ r.v.t = "list" /\ \A i \in 1..Len(r.v.items) : r.v.items[i].t = "dict"

(* C9: build_cost_table never raises on serialized input: for text that is not a
   valid encoding of a sequence of rows (invalid JSON, or JSON for a value of
   another shape) it returns "Could not parse aggregated cost data." and writes
   nothing to the store (which is empty before the first call).                  *)
C9_UnparsableTextGivesDiagnostic ==
    call.op = "build_cost_table" /\ call.arg.t = "str" /\ ~EncodesRows(call.arg.toks) =>
        /\ call.ret = PyStr(ParseErrorText)
        /\ ncalls = 1 => DOMAIN SESSION_MEMORY = {}

\* ----------------------------------------------------------------------- C10

\* The ties of out stand in the order they have in A: out is A read at increasing
\* positions wherever the keys are equal.
TiesInOriginalOrder(A, out) ==
    \E f \in [1..Len(out) -> 1..Len(A)] :
        /\ \A i, j \in 1..Len(out) : f[i] = f[j] => i = j
        /\ \A i \in 1..Len(out) : out[i] = A[f[i]]
        /\ \A i, j \in 1..Len(out) :
              i < j /\ TotalCost(out[i]) = TotalCost(out[j]) => f[i] < f[j]

(* C10: compact_aggregated_costs is idempotent for max_rows = k >= 0: called on its
   own result with the same k it returns the same rows in the same order; and rows
   of equal total_cost keep the relative order they had in the input.            *)
C10_CompactIdempotent ==
    [][call'.op = "compact_aggregated_costs" /\ call'.max_rows >= 0 =>
          /\ TiesInOriginalOrder(call'.arg.items, call'.ret.items)
          /\ (call.op = "compact_aggregated_costs" /\ call.max_rows = call'.max_rows
                  /\ call'.arg = call.ret)
                => call'.ret = call.ret]_vars

\* compact was called on its own result, which holds two different rows of equal
\* total_cost and is shorter than the first input.
C10_Witness ==
    /\ ncalls = 2
    /\ call.op = "compact_aggregated_costs"
    /\ call.max_rows = 2
    /\ Len(input.rows) = 3
    /\ Len(call.ret.items) = 2
    /\ call.ret.items[1] # call.ret.items[2]
    /\ TotalCost(call.ret.items[1]) = TotalCost(call.ret.items[2])
    /\ call.ret = call.arg

\* ---------------------------------------------------------------------- C11

\* The runs of session s, and the states in which none of them is in flight.
SessionRuns(s) == {r \in RunIds : RunSession(r) = s}
Quiescent(s) == \A r \in SessionRuns(s) : ~InFlight(r)

\* The runs of session s made so far were made one at a time, and one was made.
RanOneAtATime(s) ==
    /\ Quiescent(s)
    /\ ~pipeline.overlapped[s]
    /\ \E r \in SessionRuns(s) : pipeline.runs[r].pc = "done"

MaxRowsOf(r) == IF pipeline.runs[r].kArg = <<>> THEN DefaultMaxRows ELSE pipeline.runs[r].kArg[1]

\* compact of the session's last aggregated rows, with the max_rows of the run that
\* compacted last, and render of its last compacted rows.
CompactOfLastAggregated(s) ==
    PyList(CompactedList(SESSION_MEMORY[s].last_aggregated.items,
                         MaxRowsOf(pipeline.writer[s].last_compacted)))
RenderOfLastCompacted(s) ==
    build_cost_table(SESSION_MEMORY, RowsArg(SESSION_MEMORY[s].last_compacted.items), s).ret

\* The report of the last run of session s that had rows to render, None when there
\* was no such run.
ReportOfLastRunWithRows(s) ==
    LET r == pipeline.writer[s].last_summary
    IN  IF r = 0 THEN PyNone ELSE PyStr(FinalSummary(pipeline.runs[r].compacted))

\* Each field of session s holds the artifact of the run that wrote it last.
StemFromTheirWriters(s) ==
    LET w == pipeline.writer[s]
        m == SESSION_MEMORY[s]
    IN  /\ w.last_aggregated # 0 =>
              m.last_aggregated = PyList(pipeline.runs[w.last_aggregated].aggregated)
        /\ w.last_compacted # 0 =>
              m.last_compacted = PyList(pipeline.runs[w.last_compacted].compacted)
        /\ w.last_summary # 0 => m.last_summary = ReportOfLastRunWithRows(s)

\* C11, as stated: when the runs of a session are made one at a time, then whenever
\* none is in flight the session's last compacted rows are compact of its last
\* aggregated rows and its last report is render of its last compacted rows.
C11_StagesAgreeAfterRunsOneAtATime ==
    \A s \in SessionIds :
        RanOneAtATime(s) =>
            /\ s \in DOMAIN SESSION_MEMORY
            /\ SESSION_MEMORY[s].last_aggregated.t = "list"
            /\ SESSION_MEMORY[s].last_compacted = CompactOfLastAggregated(s)
            /\ SESSION_MEMORY[s].last_summary = RenderOfLastCompacted(s)

\* C11, amended: when the runs of a session are made one at a time, then whenever
\* none is in flight the session's last compacted rows are compact of its last
\* aggregated rows, and its last report is render of its last compacted rows if there
\* are any: when there are none, the last report is still that of the last run that
\* had rows (None when no run had).  Whether or not runs were interleaved, whenever
\* none is in flight each of last aggregated, last compacted and last report is the
\* artifact of the run that wrote it last; nothing makes these the same run.
C11_StagesAgreeUnlessNoRows ==
    \A s \in SessionIds :
        /\ RanOneAtATime(s) =>
              /\ s \in DOMAIN SESSION_MEMORY
              /\ SESSION_MEMORY[s].last_aggregated.t = "list"
              /\ SESSION_MEMORY[s].last_compacted = CompactOfLastAggregated(s)
              /\ SESSION_MEMORY[s].last_summary =
                    IF SESSION_MEMORY[s].last_compacted.items # <<>>
                    THEN RenderOfLastCompacted(s)
                    ELSE ReportOfLastRunWithRows(s)
        /\ (Quiescent(s) /\ s \in DOMAIN SESSION_MEMORY) => StemFromTheirWriters(s)

\* One session whose run was made alone and left a report of its compacted rows, and
\* another whose two runs were interleaved and are over: its last aggregated rows are
\* those of one run, its last compacted rows and its last report those of the other,
\* and the compacted rows are not compact of the aggregated rows.
C11_Witness ==
    \E s, t \in SessionIds :
        /\ RanOneAtATime(s)
        /\ SESSION_MEMORY[s].last_compacted.items # <<>>
        /\ SESSION_MEMORY[s].last_summary = RenderOfLastCompacted(s)
        /\ pipeline.overlapped[t]
        /\ Cardinality(SessionRuns(t)) >= 2
        /\ \A r \in SessionRuns(t) : pipeline.runs[r].pc = "done"
        /\ pipeline.writer[t].last_aggregated # pipeline.writer[t].last_compacted
        /\ pipeline.writer[t].last_summary = pipeline.writer[t].last_compacted
        /\ SESSION_MEMORY[t].last_compacted # CompactOfLastAggregated(t)
        /\ SESSION_MEMORY[t].last_summary = RenderOfLastCompacted(t)

====
